---- MODULE Spec2Model ----
(***************************************************************************)
(* Model of the Sass alias link provider (src/src/extension.ts).           *)
(*                                                                         *)
(* Strings are sequences of symbols.  A symbol is a character ("/", "@",   *)
(* "u", ...) or a name the code never looks inside ("tsconfig.json",       *)
(* "index.scss", ".scss", ...).  A path is a string whose first symbol is  *)
(* "/".  null, undefined and '' are the empty sequence: the three values   *)
(* the code's truthiness tests cannot tell apart.                          *)
(***************************************************************************)
EXTENDS Integers, Sequences, FiniteSets, TLC

Null == <<>>

Truthy(s) == s # Null

\* ------------------------------------------------------------------------
\* String.prototype operations used by the code
\* ------------------------------------------------------------------------

StartsWith(s, pre) ==
    /\ Len(pre) <= Len(s)
    /\ SubSeq(s, 1, Len(pre)) = pre

\* 0-based index of the first occurrence of sub in s, -1 when there is none
IndexOf(s, sub) ==
    LET hits == {i \in 0..(Len(s) - Len(sub)) : SubSeq(s, i + 1, i + Len(sub)) = sub}
    IN  IF hits = {} THEN 0 - 1
        ELSE CHOOSE i \in hits : \A j \in hits : i <= j

\* s.replace(pat, rep) with a string pattern: the first occurrence only
Replace(s, pat, rep) ==
    LET i == IndexOf(s, pat)
    IN  IF i < 0 THEN s
        ELSE SubSeq(s, 1, i) \o rep \o SubSeq(s, i + Len(pat) + 1, Len(s))

\* ------------------------------------------------------------------------
\* Node's path module (POSIX)
\* ------------------------------------------------------------------------

Slash == <<"/">>

RootDir == Slash

RECURSIVE Split(_)
\* the segments of s between the "/" symbols
Split(s) ==
    LET i == IndexOf(s, Slash)
    IN  IF i < 0 THEN <<s>>
        ELSE <<SubSeq(s, 1, i)>> \o Split(SubSeq(s, i + 2, Len(s)))

RECURSIVE Segments(_, _)
\* segs folded onto the stack acc: '' and '.' dropped, '..' pops
Segments(segs, acc) ==
    IF segs = <<>> THEN acc
    ELSE LET h == Head(segs)
         IN  IF h = <<>> \/ h = <<".">> THEN Segments(Tail(segs), acc)
             ELSE IF h = <<".", ".">>
                  THEN Segments(Tail(segs),
                                IF acc = <<>> THEN acc ELSE SubSeq(acc, 1, Len(acc) - 1))
                  ELSE Segments(Tail(segs), Append(acc, h))

RECURSIVE Glue(_)
Glue(segs) ==
    IF segs = <<>> THEN <<>>
    ELSE Slash \o Head(segs) \o Glue(Tail(segs))

\* path.normalize of an absolute path; a trailing "/" is kept
pathNormalize(p) ==
    LET segs == Segments(Split(p), <<>>)
    IN  IF segs = <<>> THEN RootDir
        ELSE Glue(segs) \o (IF p[Len(p)] = "/" THEN Slash ELSE <<>>)

\* path.join(a, b) for an absolute a
pathJoin(a, b) ==
    IF b = <<>> THEN pathNormalize(a) ELSE pathNormalize(a \o Slash \o b)

\* path.resolve(from, to): absolute, normalised, no trailing "/"
pathResolve(from, to) ==
    LET segs == Segments(Split(IF to # <<>> /\ to[1] = "/" THEN to
                               ELSE from \o Slash \o to), <<>>)
    IN  IF segs = <<>> THEN RootDir ELSE Glue(segs)

\* path.dirname of a normalised absolute path
pathDirname(p) ==
    LET segs == Segments(Split(p), <<>>)
    IN  IF Len(segs) <= 1 THEN RootDir
        ELSE Glue(SubSeq(segs, 1, Len(segs) - 1))

\* path.parse(p).root
pathRoot(p) == IF p # <<>> /\ p[1] = "/" THEN RootDir ELSE <<>>

\* ------------------------------------------------------------------------
\* The filesystem, as fs/promises sees it.
\*   f.kind    : the entries that exist, each "file", "dir" or "other"
\*               (a socket, a device); every ancestor of an entry is a
\*               directory
\*   f.denied  : paths on which fs.access(p, R_OK) is rejected
\*   f.statErr : paths on which fs.stat(p) is rejected
\*   f.mtime   : stat.mtimeMs of the configuration files
\*   f.content : what fs.readFile gives for the configuration files
\* ------------------------------------------------------------------------

KindOf(f, p) ==
    IF p = RootDir THEN "dir"
    ELSE IF p \in DOMAIN f.kind THEN f.kind[p]
    ELSE IF \E q \in DOMAIN f.kind : StartsWith(q, p \o Slash) THEN "dir"
    ELSE "none"

\* fs.stat(p): "error" when the promise is rejected, else the kind of the entry
fsStat(f, p) ==
    IF KindOf(f, p) = "none" \/ p \in f.statErr THEN "error" ELSE KindOf(f, p)

fileExists(f, filePath) ==
    /\ KindOf(f, filePath) # "none"
    /\ filePath \notin f.denied

\* ------------------------------------------------------------------------
\* The alias table: Record<string, string[]> in insertion order, as a
\* sequence of [key, paths]
\* ------------------------------------------------------------------------

Keys(aliases) == [i \in 1..Len(aliases) |-> aliases[i].key]

DigitSeq == <<"0", "1", "2", "3", "4", "5", "6", "7", "8", "9">>

\* key is the canonical decimal form of an integer (below 2^32 - 1, which
\* no key of this model reaches): an own property that Object.keys and
\* for-in list before the string keys, in ascending numeric order
IsArrayIndex(key) ==
    /\ key # <<>>
    /\ \A i \in 1..Len(key) : \E n \in 1..Len(DigitSeq) : key[i] = DigitSeq[n]
    /\ Len(key) = 1 \/ key[1] # "0"

RECURSIVE IndexValue(_)
IndexValue(key) ==
    IF key = <<>> THEN 0
    ELSE LET d == CHOOSE n \in 1..Len(DigitSeq) : key[Len(key)] = DigitSeq[n]
         IN  Len(DigitSeq) * IndexValue(SubSeq(key, 1, Len(key) - 1)) + (d - 1)

\* aliases[key] = paths; the sequence is kept in the order of Object.keys:
\* integer keys ascending, then string keys as they were added
Put(aliases, key, paths) ==
    LET ahead == {i \in 1..Len(aliases) :
                     /\ IsArrayIndex(aliases[i].key)
                     /\ IndexValue(aliases[i].key) < IndexValue(key)}
        n == Cardinality(ahead)
    IN  IF \E i \in 1..Len(aliases) : aliases[i].key = key
        THEN [i \in 1..Len(aliases) |->
                IF aliases[i].key = key THEN [key |-> key, paths |-> paths] ELSE aliases[i]]
        ELSE IF IsArrayIndex(key)
        THEN SubSeq(aliases, 1, n) \o <<[key |-> key, paths |-> paths]>>
                 \o SubSeq(aliases, n + 1, Len(aliases))
        ELSE Append(aliases, [key |-> key, paths |-> paths])

Get(aliases, key) ==
    LET i == CHOOSE i \in 1..Len(aliases) : aliases[i].key = key
    IN  aliases[i].paths

\* what a rejected promise carries; NoError when the promise is fulfilled
NoError == "none"
SyntaxError == "SyntaxError"
TypeError == "TypeError"
FsError == "FsError"

\* the value resolveAlias's promise is rejected with, among the paths
Rejected == <<FsError>>

Star == <<"/", "*">>

RECURSIVE buildAliases(_, _, _)
\* the loop over config.compilerOptions.paths; an alias whose value is not an
\* array of strings makes .map or .replace throw
buildAliases(configPath, paths, aliases) ==
    IF paths = <<>> THEN [error |-> NoError, aliases |-> aliases]
    ELSE LET e == Head(paths)
             actualPaths == [i \in 1..Len(e.targets) |->
                 pathResolve(pathDirname(configPath), Replace(e.targets[i], Star, <<>>))]
         IN  IF ~e.typed THEN [error |-> TypeError, aliases |-> <<>>]
             ELSE buildAliases(configPath, Tail(paths),
                               Put(aliases, Replace(e.alias, Star, <<>>), actualPaths))

\* JSON.parse of the file and the loop: the alias table, or the error thrown
parseConfig(configPath, configContent) ==
    IF ~configContent.json THEN [error |-> SyntaxError, aliases |-> <<>>]
    ELSE buildAliases(configPath, configContent.paths, <<>>)

\* ------------------------------------------------------------------------
\* The Import Resolver
\* ------------------------------------------------------------------------

extensions == << <<>>, <<".sass">>, <<".scss">>, <<".css">> >>

RECURSIVE tryCandidates(_, _, _)
tryCandidates(f, filePath, exts) ==
    IF exts = <<>> THEN Null
    ELSE IF fileExists(f, filePath \o Head(exts)) THEN filePath \o Head(exts)
    ELSE tryCandidates(f, filePath, Tail(exts))

tryWithExtensions(f, fileName, importPath) ==
    tryCandidates(f, pathJoin(pathDirname(fileName), importPath), extensions)

\* Object.keys(aliases).find(alias => importPath.startsWith(alias)), or Null
findAliasKey(importPath, aliases) ==
    LET hits == {i \in 1..Len(aliases) : StartsWith(importPath, aliases[i].key)}
    IN  IF hits = {} THEN Null
        ELSE aliases[CHOOSE i \in hits : \A j \in hits : i <= j].key

IndexScss == <<"index.scss">>
MainScss == <<"main.scss">>

\* a look into the directory that prefers main.scss
findMainFile(f, resolvedPath) ==
    LET indexPath == pathJoin(resolvedPath, IndexScss)
        mainPath == pathJoin(resolvedPath, MainScss)
    IN  IF fileExists(f, mainPath) THEN mainPath
        ELSE IF fileExists(f, indexPath) THEN indexPath
        ELSE Null

\* index.scss or main.scss inside the directory resolvedPath (lines 142-156)
findIndexFile(f, resolvedPath) ==
    LET indexPath == pathJoin(resolvedPath, IndexScss)
        mainPath == pathJoin(resolvedPath, MainScss)
    IN  IF fileExists(f, indexPath) THEN indexPath
        ELSE IF fileExists(f, mainPath) THEN mainPath
        ELSE Null

\* what is at resolvedPath, which exists (lines 128-156)
probeResolvedPath(f, resolvedPath) ==
    LET stat == fsStat(f, resolvedPath)
    IN  IF stat = "error" THEN Rejected
        ELSE IF stat = "file" THEN resolvedPath
        ELSE IF stat # "dir" THEN Null
        ELSE findIndexFile(f, resolvedPath)

\* a loop that gives up at the first base path with nothing under it
probeFirstBasePath(f, basePaths, relativePath) ==
    IF basePaths = <<>> THEN Null
    ELSE LET resolvedPath == pathJoin(Head(basePaths), relativePath)
         IN  IF ~fileExists(f, resolvedPath) THEN Null
             ELSE probeResolvedPath(f, resolvedPath)

RECURSIVE probeNextWhenEmpty(_, _, _)
\* a loop that goes on to the next base path when the joined path gives
\* nothing
probeNextWhenEmpty(f, basePaths, relativePath) ==
    IF basePaths = <<>> THEN Null
    ELSE LET resolvedPath == pathJoin(Head(basePaths), relativePath)
         IN  IF ~fileExists(f, resolvedPath) \/ probeResolvedPath(f, resolvedPath) = Null
                 THEN probeNextWhenEmpty(f, Tail(basePaths), relativePath)
             ELSE probeResolvedPath(f, resolvedPath)

RECURSIVE probeBasePaths(_, _, _)
\* the loop over basePaths (lines 121-161); Rejected when fs.stat is rejected
probeBasePaths(f, basePaths, relativePath) ==
    IF basePaths = <<>> THEN Null
    ELSE LET resolvedPath == pathJoin(Head(basePaths), relativePath)
         IN  IF ~fileExists(f, resolvedPath)
                 THEN probeBasePaths(f, Tail(basePaths), relativePath)
             ELSE probeResolvedPath(f, resolvedPath)

\* the resolved path, Null, or the error the promise is rejected with
resolveAlias(f, fileName, importPath, aliases) ==
    LET aliasKey == findAliasKey(importPath, aliases)
    IN  IF ~Truthy(aliasKey) THEN tryWithExtensions(f, fileName, importPath)
        ELSE probeBasePaths(f, Get(aliases, aliasKey), Replace(importPath, aliasKey, <<>>))

\* ------------------------------------------------------------------------
\* importRegex = /@(?:use|import)\s*['"]([^'"]+)['"]/g
\* ------------------------------------------------------------------------

Quotes == {"'", "\""}
Spaces == {" "}

\* the number of symbols of t from 1-based position i on that are in S
RECURSIVE Run(_, _, _)
Run(t, i, S) == IF i <= Len(t) /\ t[i] \in S THEN 1 + Run(t, i + 1, S) ELSE 0

RECURSIVE RunNot(_, _, _)
RunNot(t, i, S) == IF i <= Len(t) /\ t[i] \notin S THEN 1 + RunNot(t, i + 1, S) ELSE 0

\* t.substring(a - 1, b), empty when it runs off the end
Sub(t, a, b) == IF b <= Len(t) THEN SubSeq(t, a, b) ELSE <<>>

\* the length of the match that starts at 0-based offset i of t, 0 when none
MatchAt(t, i) ==
    LET kw == IF Sub(t, i + 2, i + 4) = <<"u", "s", "e">> THEN 3
              ELSE IF Sub(t, i + 2, i + 7) = <<"i", "m", "p", "o", "r", "t">> THEN 6
              ELSE 0
        sp == Run(t, i + 2 + kw, Spaces)
        q1 == i + 2 + kw + sp
        n  == RunNot(t, q1 + 1, Quotes)
        q2 == q1 + 1 + n
    IN  IF /\ i + 1 <= Len(t) /\ t[i + 1] = "@"
           /\ kw > 0
           /\ q1 <= Len(t) /\ t[q1] \in Quotes
           /\ n > 0
           /\ q2 <= Len(t) /\ t[q2] \in Quotes
        THEN q2 - i ELSE 0

\* match[1] of the match of length len at offset i
Group1(t, i, len) ==
    LET body == SubSeq(t, i + 1, i + len - 1)
        q1 == CHOOSE k \in 1..Len(body) : body[k] \in Quotes /\ \A j \in 1..(k - 1) : body[j] \notin Quotes
    IN  SubSeq(body, q1 + 1, Len(body))

NoMatch == [index |-> 0 - 1, all |-> <<>>, group |-> <<>>, lastIndex |-> 0]

\* importRegex.exec(t) with importRegex.lastIndex = from: the match (index,
\* match[0], match[1]) and the new lastIndex; index -1 stands for null
importRegexExec(t, from) ==
    LET hits == {i \in from..(Len(t) - 1) : MatchAt(t, i) > 0}
    IN  IF from > Len(t) \/ hits = {} THEN NoMatch
        ELSE LET i == CHOOSE i \in hits : \A j \in hits : i <= j
                 len == MatchAt(t, i)
             IN  [index |-> i, all |-> SubSeq(t, i + 1, i + len),
                  group |-> Group1(t, i, len), lastIndex |-> i + len]

\* document.positionAt / Position.translate / Range on a one-line document,
\* and Uri.file: the link of match m whose specifier resolved to resolvedPath
makeLink(m, resolvedPath) ==
    LET startPos == m.index + IndexOf(m.all, m.group)
    IN  [range |-> <<startPos, startPos + Len(m.group)>>, target |-> resolvedPath]

\* ------------------------------------------------------------------------
\* The extension's state
\* ------------------------------------------------------------------------

VARIABLES
    fs,                 \* the filesystem
    text,               \* the open documents: fileName -> document.getText()
    configCache,        \* configPath -> ConfigCacheEntry
    configPathCache,    \* directory -> configuration path or Null
    documentLinkCache,  \* fileName -> links
    lastIndex,          \* importRegex.lastIndex
    calls,              \* the provideDocumentLinks calls in flight, each with
                        \*   its locals
    returned,           \* history: the call that settled last
    edited,             \* history: documents edited and not requested since
    stale,              \* history: documents whose documentLinkCache entry
                        \*   comes from a text read before the latest edit
    last                \* history: fileName -> what the latest fulfilled call
                        \*   returned, forgotten when the document is edited

vars == <<fs, text, configCache, configPathCache, documentLinkCache, lastIndex,
          calls, returned, edited, stale, last>>

\* how many provideDocumentLinks calls the host has in flight at a time
MaxCalls == 1

\* how often a configuration file is rewritten
MaxMtime == 2

\* how many links a scan collects: scans that share importRegex.lastIndex can
\* send each other back to the start of the text without end
MaxLinks == 2

CallIds == 1..MaxCalls

TsConfig == <<"tsconfig.json">>
JsConfig == <<"jsconfig.json">>

\* a function without / with one more key
Without(f, k) == [x \in DOMAIN f \ {k} |-> f[x]]
With(f, k, v) == [x \in DOMAIN f \cup {k} |-> IF x = k THEN v ELSE f[x]]

\* a slot no call is using; the fields after error are history: whether the
\* call was answered from documentLinkCache, whether it touched the
\* filesystem, whether it is the first call for its document since an edit,
\* whether its links come from a text read before the latest edit,
\* whether it follows a fulfilled call for its document with no edit since,
\* what that call returned and whether this one returned the same, importRegex.lastIndex when its scan began,
\* the directories findNearestConfig went through, and the last specifier
\* resolved with its result
Idle ==
    [pc |-> "idle", doc |-> Null, currentDir |-> Null, configPath |-> Null,
     lastModified |-> 0, aliases |-> <<>>, text |-> <<>>, match |-> NoMatch,
     links |-> <<>>, ret |-> <<>>, error |-> NoError,
     hit |-> FALSE, fsOps |-> FALSE, afterEdit |-> FALSE, preEdit |-> FALSE,
     follows |-> FALSE,
     prevRet |-> <<>>, same |-> FALSE, scanFrom |-> 0 - 1, visited |-> <<>>, importPath |-> Null,
     resolved |-> Null]

Free(c) == calls[c].pc = "idle"

\* the promise of call k is fulfilled with links
Fulfil(k, links) ==
    [k EXCEPT !.pc = "done", !.ret = links, !.same = (links = k.prevRet),
              !.currentDir = Null, !.text = <<>>, !.match = NoMatch, !.links = <<>>,
              !.prevRet = <<>>]

\* the promise of call k is rejected with error
Reject(k, error) ==
    [k EXCEPT !.pc = "failed", !.error = error,
              !.currentDir = Null, !.text = <<>>, !.match = NoMatch, !.links = <<>>,
              !.prevRet = <<>>]

\* call c leaves its slot as the record k
Settle(c, k) ==
    /\ calls' = [calls EXCEPT ![c] = Idle]
    /\ returned' = k

\* lines 188-208 from an importRegex.exec on: the call k after the exec that
\* found m, having collected links
Scan(c, k, m, links) ==
    /\ lastIndex' = m.lastIndex
    /\ IF m.index < 0
       THEN /\ documentLinkCache' = With(documentLinkCache, k.doc, links)
            /\ Settle(c, Fulfil(k, links))
            /\ stale' = IF k.preEdit THEN stale \cup {k.doc} ELSE stale \ {k.doc}
            /\ last' = With(last, k.doc, links)
       ELSE /\ calls' = [calls EXCEPT ![c] = [k EXCEPT !.pc = "resolve", !.match = m,
                                                      !.links = links]]
            /\ UNCHANGED <<documentLinkCache, returned, stale, last>>

\* lines 188-191: document.getText() and the first importRegex.exec
BeginScan(c, k) ==
    LET t == text[k.doc]
    IN  Scan(c, [k EXCEPT !.text = t, !.scanFrom = lastIndex],
             importRegexExec(t, lastIndex), <<>>)

\* provideDocumentLinks is called for document d (lines 176-183, and
\* findNearestConfig up to its first fs.access)
provideDocumentLinks(c, d) ==
    /\ Free(c)
    /\ \A b \in CallIds : b < c => ~Free(b)
    /\ d \in DOMAIN text
    /\ LET k == [Idle EXCEPT !.doc = d, !.afterEdit = d \in edited,
                             !.follows = d \in DOMAIN last,
                             !.prevRet = IF d \in DOMAIN last THEN last[d] ELSE <<>>]
           fileDir == pathDirname(d)
       IN  IF d \in DOMAIN documentLinkCache
           THEN /\ Settle(c, [Fulfil(k, documentLinkCache[d]) EXCEPT
                               !.hit = TRUE, !.preEdit = d \in stale])
                /\ last' = With(last, d, documentLinkCache[d])
           ELSE IF fileDir = pathRoot(fileDir)
           THEN /\ Settle(c, Fulfil(k, <<>>))
                /\ last' = With(last, d, <<>>)
           ELSE /\ calls' = [calls EXCEPT ![c] =
                     [k EXCEPT !.pc = "locate", !.currentDir = fileDir]]
                /\ UNCHANGED <<returned, last>>
    /\ edited' = edited \ {d}
    /\ UNCHANGED <<fs, text, configCache, configPathCache, documentLinkCache, lastIndex,
                   stale>>

\* configPathCache[dir], undefined read as Null
CachedConfigPath(dir) ==
    IF dir \in DOMAIN configPathCache THEN configPathCache[dir] ELSE Null

\* a probe that looks for jsconfig.json first
probeConfigJsFirst(f, currentDir) ==
    LET tsConfigPath == pathJoin(currentDir, TsConfig)
        jsConfigPath == pathJoin(currentDir, JsConfig)
    IN  IF fileExists(f, jsConfigPath) THEN jsConfigPath
        ELSE IF fileExists(f, tsConfigPath) THEN tsConfigPath
        ELSE Null

\* the two probes of a turn (lines 40-53): the configuration file found in
\* currentDir, or Null
probeConfig(f, currentDir) ==
    LET tsConfigPath == pathJoin(currentDir, TsConfig)
        jsConfigPath == pathJoin(currentDir, JsConfig)
    IN  IF fileExists(f, tsConfigPath) THEN tsConfigPath
        ELSE IF fileExists(f, jsConfigPath) THEN jsConfigPath
        ELSE Null

\* a walk that stays where it is
sameDir(currentDir) == currentDir

\* where the walk goes next (line 56)
parentDir(currentDir) == pathDirname(currentDir)

\* one turn of findNearestConfig's loop (lines 33-57), and lines 59-60 and 185
\* when the loop ends
findNearestConfig(c) ==
    LET k == calls[c]
        currentDir == k.currentDir
        found == probeConfig(fs, currentDir)
        parent == parentDir(currentDir)
        seen == [k EXCEPT !.visited = Append(k.visited, currentDir)]
        probed == [seen EXCEPT !.fsOps = TRUE]
    IN  /\ k.pc = "locate"
        /\ IF Truthy(CachedConfigPath(currentDir))
           THEN /\ calls' = [calls EXCEPT ![c] =
                     [seen EXCEPT !.pc = "stat", !.configPath = configPathCache[currentDir]]]
                /\ UNCHANGED <<configPathCache, returned, last>>
           ELSE IF Truthy(found)
           THEN /\ configPathCache' = With(configPathCache, currentDir, found)
                /\ calls' = [calls EXCEPT ![c] =
                     [probed EXCEPT !.pc = "stat", !.configPath = found]]
                /\ UNCHANGED <<returned, last>>
           ELSE /\ configPathCache' = With(configPathCache, currentDir, Null)
                /\ IF parent = pathRoot(parent)
                   THEN /\ Settle(c, Fulfil(probed, <<>>))
                        /\ last' = With(last, k.doc, <<>>)
                   ELSE /\ calls' = [calls EXCEPT ![c] = [probed EXCEPT !.currentDir = parent]]
                        /\ UNCHANGED <<returned, last>>
        /\ UNCHANGED <<fs, text, configCache, documentLinkCache, lastIndex, edited, stale>>

\* a cache test that takes any entry, whatever its timestamp
CacheIsThere(configPath, lastModified) == configPath \in DOMAIN configCache

\* configCache[configPath] is there with this timestamp (line 68)
CacheIsFresh(configPath, lastModified) ==
    /\ configPath \in DOMAIN configCache
    /\ configCache[configPath].lastModified = lastModified

\* getTsConfigAliases from fs.stat to the cache test (lines 64-71); on a hit
\* the scan begins
getTsConfigAliasesStat(c) ==
    LET k == [calls[c] EXCEPT !.fsOps = TRUE]
        lastModified == fs.mtime[k.configPath]
    IN  /\ k.pc = "stat"
        /\ IF fsStat(fs, k.configPath) = "error"
           THEN /\ Settle(c, Reject(k, FsError))
                /\ UNCHANGED <<documentLinkCache, lastIndex, stale, last>>
           ELSE IF CacheIsFresh(k.configPath, lastModified)
           THEN BeginScan(c, [k EXCEPT !.lastModified = lastModified,
                                       !.aliases = configCache[k.configPath].aliases])
           ELSE /\ calls' = [calls EXCEPT ![c] =
                     [k EXCEPT !.pc = "read", !.lastModified = lastModified]]
                /\ UNCHANGED <<documentLinkCache, lastIndex, returned, stale, last>>
        /\ UNCHANGED <<fs, text, configCache, configPathCache, edited>>

\* getTsConfigAliases from fs.readFile on (lines 75-92); then the scan begins
getTsConfigAliasesRead(c) ==
    LET k == calls[c]
        parsed == parseConfig(k.configPath, fs.content[k.configPath])
    IN  /\ k.pc = "read"
        /\ IF KindOf(fs, k.configPath) # "file"
           THEN /\ Settle(c, Reject(k, FsError))
                /\ UNCHANGED <<configCache, documentLinkCache, lastIndex, stale, last>>
           ELSE IF parsed.error # NoError
           THEN /\ Settle(c, Reject(k, parsed.error))
                /\ UNCHANGED <<configCache, documentLinkCache, lastIndex, stale, last>>
           ELSE /\ configCache' = With(configCache, k.configPath,
                     [aliases |-> parsed.aliases, lastModified |-> k.lastModified,
                      configPath |-> k.configPath])
                /\ BeginScan(c, [k EXCEPT !.aliases = parsed.aliases])
        /\ UNCHANGED <<fs, text, configPathCache, edited>>

\* the rest of a turn of the while loop once resolveAlias has settled
\* (lines 197-205), and the next importRegex.exec (line 191)
resolveStep(c) ==
    LET k == calls[c]
        resolvedPath == resolveAlias(fs, k.doc, k.match.group, k.aliases)
        links == IF Truthy(resolvedPath)
                 THEN Append(k.links, makeLink(k.match, resolvedPath)) ELSE k.links
        done == [k EXCEPT !.fsOps = TRUE, !.importPath = k.match.group,
                          !.resolved = resolvedPath]
    IN  /\ k.pc = "resolve"
        /\ Len(k.links) < MaxLinks
        /\ IF resolvedPath = Rejected
           THEN /\ Settle(c, Reject(done, FsError))
                /\ UNCHANGED <<documentLinkCache, lastIndex, stale, last>>
           ELSE Scan(c, done, importRegexExec(k.text, lastIndex), links)
        /\ UNCHANGED <<fs, text, configCache, configPathCache, edited>>

\* an invalidation that drops every entry
invalidateAll(cache, d) == << >>

\* the cache without the entry of document d, if it has one (lines 229-232)
invalidate(cache, d) ==
    IF d \in DOMAIN cache THEN Without(cache, d) ELSE cache

\* the onDidChangeTextDocument handler (lines 228-233), for an edit that
\* leaves document d with text t
onDidChangeTextDocument(d, t) ==
    /\ d \in DOMAIN text
    /\ text' = [text EXCEPT ![d] = t]
    /\ documentLinkCache' = invalidate(documentLinkCache, d)
    /\ edited' = edited \cup {d}
    /\ stale' = stale \ {d}
    /\ last' = Without(last, d)
    /\ calls' = [c \in CallIds |->
         IF calls[c].doc = d /\ ~Free(c)
         THEN [calls[c] EXCEPT !.follows = FALSE, !.preEdit = (calls[c].pc = "resolve")]
         ELSE calls[c]]
    /\ UNCHANGED <<fs, configCache, configPathCache, lastIndex, returned>>

\* ------------------------------------------------------------------------
\* The world around the extension: a project /p with a source directory
\* /p/s, alias targets under /p/a and /p/b, and a directory /q outside it
\* ------------------------------------------------------------------------

DirP == <<"/", "p">>
DirS == <<"/", "p", "/", "s">>
DirQ == <<"/", "q">>

DocD == <<"/", "p", "/", "s", "/", "d", ".scss">>
DocE == <<"/", "q", "/", "e", ".scss">>
DocF == <<"/", "p", "/", "f", ".scss">>
DocG == <<"/", "g", ".scss">>

ConfP == <<"/", "p", "/", "tsconfig.json">>
JsConfP == <<"/", "p", "/", "jsconfig.json">>
ConfS == <<"/", "p", "/", "s", "/", "tsconfig.json">>
JsConfS == <<"/", "p", "/", "s", "/", "jsconfig.json">>
ConfRoot == <<"/", "tsconfig.json">>
ConfigPaths == {ConfP, JsConfP, ConfS, JsConfS, ConfRoot}

AX == <<"/", "p", "/", "a", "/", "x">>
BX == <<"/", "p", "/", "b", "/", "x">>
SY == <<"/", "p", "/", "s", "/", "y">>

\* compilerOptions.paths of the configuration files
PathsA == << [alias |-> <<"@", "a", "/", "*">>,
              targets |-> << <<".", "/", "a", "/", "*">>, <<"b", "/", "*">> >>,
              typed |-> TRUE] >>
PathsIll == << [alias |-> <<"@", "a", "/", "*">>, targets |-> <<>>, typed |-> FALSE] >>

ContentA == [json |-> TRUE, paths |-> PathsA]
ContentNone == [json |-> TRUE, paths |-> <<>>]
ContentIll == [json |-> TRUE, paths |-> PathsIll]
ContentBad == [json |-> FALSE, paths |-> <<>>]

\* document texts
ImportAX == <<"@", "u", "s", "e", " ", "'", "@", "a", "/", "x", "'">>
ImportY == <<"@", "i", "m", "p", "o", "r", "t", "\"", ".", "/", "y", "\"">>
ImportBareY == <<"@", "u", "s", "e", "'", "y", "'">>
TextNone == <<"a">>
TextTwo == ImportAX \o ImportY

\* the filesystem in which the entries of the function kind exist
Layout(kind, denied, statErr, content) ==
    [kind |-> kind, denied |-> denied, statErr |-> statErr,
     mtime |-> [p \in ConfigPaths \cap DOMAIN kind |-> 1],
     content |-> [p \in ConfigPaths \cap DOMAIN kind |-> content]]

\* the entries a choice of "absent" / "file" / "dir" / "other" per path gives
Present(choice) == [p \in {q \in DOMAIN choice : choice[q] # "absent"} |-> choice[p]]

\* no entry lies under a file
Consistent(kind) ==
    \A p, q \in DOMAIN kind : StartsWith(q, p \o Slash) => kind[p] = "dir"

NoCalls == [c \in CallIds |-> Idle]

\* the extension right after activate, in filesystem f with the documents texts
Activated(f, texts) ==
    /\ fs = f
    /\ text = texts
    /\ configCache = << >>
    /\ configPathCache = << >>
    /\ documentLinkCache = << >>
    /\ lastIndex = 0
    /\ calls = NoCalls
    /\ returned = Idle
    /\ edited = {}
    /\ stale = {}
    /\ last = << >>

\* ------------------------------------------------------------------------
\* An editing session: document d.scss of the project and document e.scss
\* outside any project are requested and edited; the files stay as they are
\* ------------------------------------------------------------------------

ProjectFiles == (ConfP :> "file") @@ (AX :> "file") @@ (SY \o <<".scss">> :> "file")

\* the texts an edit can leave document d with
Versions(d) == IF d = DocD THEN {ImportAX, TextTwo} ELSE {TextNone}

Init ==
    Activated(Layout(ProjectFiles, {}, {}, ContentA),
              (DocD :> TextTwo) @@ (DocE :> TextNone))

\* the extension's handlers
Handlers ==
    \E c \in CallIds :
        \/ \E d \in DOMAIN text : provideDocumentLinks(c, d)
        \/ findNearestConfig(c)
        \/ getTsConfigAliasesStat(c)
        \/ getTsConfigAliasesRead(c)
        \/ resolveStep(c)

Next ==
    \/ Handlers
    \/ \E d \in DOMAIN text : \E t \in Versions(d) : onDidChangeTextDocument(d, t)

Spec == Init /\ [][Next]_vars

\* ------------------------------------------------------------------------
\* The project's configuration file is rewritten while d.scss is requested
\* and touched (edit notifications that leave the text as it was)
\* ------------------------------------------------------------------------

Contents == {ContentA, ContentNone}

InitConf ==
    Activated(Layout(ProjectFiles, {}, {}, ContentA), (DocD :> ImportAX))

\* a configuration file is rewritten: new timestamp, possibly new content
EnvTouch(p, content) ==
    /\ KindOf(fs, p) = "file"
    /\ fs.mtime[p] < MaxMtime
    /\ fs' = [fs EXCEPT !.mtime[p] = @ + 1, !.content[p] = content]
    /\ UNCHANGED <<text, configCache, configPathCache, documentLinkCache, lastIndex,
                   calls, returned, edited, stale, last>>

NextConf ==
    \/ Handlers
    \/ \E d \in DOMAIN text : onDidChangeTextDocument(d, text[d])
    \/ \E content \in Contents : EnvTouch(ConfP, content)

SpecConf == InitConf /\ [][NextConf]_vars

\* ------------------------------------------------------------------------
\* The Config Locator on filesystems that do not change: configuration
\* files, some unreadable, in /p/s, in /p and in the root; documents in /p/s,
\* /p and the root
\* ------------------------------------------------------------------------

LocateChoices == [{ConfS, JsConfS, ConfP, JsConfP, ConfRoot} -> {"absent", "file"}]

InitLocate ==
    \E ch \in LocateChoices, denied \in SUBSET {ConfS, ConfP} :
        /\ denied \subseteq DOMAIN Present(ch)
        /\ Activated(Layout(Present(ch), denied, {}, ContentNone),
                     (DocD :> ImportBareY) @@ (DocF :> TextNone) @@ (DocG :> TextNone))

SpecLocate == InitLocate /\ [][Handlers]_vars

\* the event loop resumes every walk that waits for fs.access: weak fairness
\* of findNearestConfig(c), written out with "the call is at locate" for
\* ENABLED <<findNearestConfig(c)>>_vars, which it equals
FairSpecLocate ==
    SpecLocate /\ \A c \in CallIds :
        \/ []<>(calls[c].pc # "locate")
        \/ []<><<findNearestConfig(c)>>_vars

\* ------------------------------------------------------------------------
\* The Import Resolver on filesystems that do not change: d.scss holds one
\* import, of an alias with the base paths /p/a and /p/b or of a relative
\* specifier
\* ------------------------------------------------------------------------

\* where the relative fallback would look for @a/x
SAX == <<"/", "p", "/", "s", "/", "@", "a", "/", "x">>

AliasChoices ==
    {ch \in {c \in [{AX, BX, SAX} -> {"absent", "file", "dir", "other"}] :
                c[SAX] \in {"absent", "file"}}
              \cup [{AX, pathJoin(AX, IndexScss), pathJoin(AX, MainScss), BX,
                     pathJoin(BX, MainScss)} -> {"absent", "file", "dir"}] :
        /\ Consistent(Present(ch))
        /\ \A p \in DOMAIN ch \ {AX, BX} : ch[p] # "dir"}

RelativeChoices ==
    {ch \in [{SY, SY \o <<".sass">>, SY \o <<".scss">>, SY \o <<".css">>}
                -> {"absent", "file", "dir"}] :
        \A p \in DOMAIN ch \ {SY} : ch[p] # "dir"}

InitResolve ==
    \/ \E ch \in AliasChoices, denied \in SUBSET {AX}, statErr \in SUBSET {AX, ConfP} :
        Activated(Layout(Present(ch) @@ (ConfP :> "file"), denied, statErr, ContentA),
                  (DocD :> ImportAX))
    \/ \E ch \in RelativeChoices, denied \in SUBSET {SY \o <<".sass">>},
          content \in {ContentA, ContentNone, ContentBad, ContentIll},
          t \in {ImportY, ImportBareY} :
        Activated(Layout(Present(ch) @@ (ConfP :> "file"), denied, {}, content),
                  (DocD :> t))

SpecResolve == InitResolve /\ [][Handlers]_vars

\* ------------------------------------------------------------------------
\* Link Extraction: invalidation, idempotence, errors
\* ------------------------------------------------------------------------

Settled(k) == k.pc \in {"done", "failed"}

\* C1: after an edit notification for a document, the next call for it
\* returns nothing that was scanned before the edit: it scans the text
\* itself, from its beginning, or is answered with links that a scan of the
\* edited text has stored since
C1_InvalidationForcesRescan ==
    (Settled(returned) /\ returned.afterEdit) =>
        /\ ~(returned.hit /\ returned.preEdit)
        /\ returned.scanFrom \in {0 - 1, 0}

\* C2: a call that follows a fulfilled call for the same document, with no
\* edit notification since, returns the same links and touches no file
C2_SecondCallIsFree ==
    (returned.pc = "done" /\ returned.follows) =>
        /\ returned.same
        /\ ~returned.fsOps

RECURSIVE LinksFrom(_, _, _, _, _)
\* the links of all the imports of text t from offset from on, each resolved
\* in filesystem f through aliases, unresolved ones left out
LinksFrom(f, fileName, t, aliases, from) ==
    LET m == importRegexExec(t, from)
        resolvedPath == resolveAlias(f, fileName, m.group, aliases)
    IN  IF m.index < 0 THEN <<>>
        ELSE (IF Truthy(resolvedPath) /\ resolvedPath # Rejected
              THEN <<makeLink(m, resolvedPath)>> ELSE <<>>)
             \o LinksFrom(f, fileName, t, aliases, m.lastIndex)

\* the record of call c after the step: in its slot, or returned
After(c) == IF calls'[c].pc = "idle" THEN returned' ELSE calls'[c]

\* C3, for the call in slot c: past fs.stat it goes on to read the file if
\* and only if configCache has no entry for the path or one with another
\* timestamp than the file's, and else uses the cached table and leaves the
\* cache alone; past a read that gives a table, the cache entry holds that
\* table and the timestamp fs.stat gave
C3_Build(c) ==
    LET k == calls[c]
        p == k.configPath
        outdated == p \notin DOMAIN configCache \/ configCache[p].lastModified # fs.mtime[p]
    IN  /\ (k.pc = "stat" /\ calls'[c].pc # "stat" /\ fsStat(fs, p) # "error") =>
              /\ After(c).lastModified = fs.mtime[p]
              /\ (calls'[c].pc = "read") <=> outdated
              /\ ~outdated => /\ After(c).aliases = configCache[p].aliases
                           /\ configCache' = configCache
        /\ (k.pc = "read" /\ calls'[c].pc # "read" /\ After(c).error = NoError) =>
              /\ p \in DOMAIN configCache'
              /\ configCache'[p].aliases = parseConfig(p, fs.content[p]).aliases
              /\ configCache'[p].lastModified = k.lastModified
              /\ After(c).aliases = configCache'[p].aliases

\* C3: the alias-table cache is read and refreshed by the timestamp alone
C3_CacheCorrectness == [][\A c \in CallIds : C3_Build(c)]_vars

\* a call has seen the file's timestamp differ from the cached one and is
\* about to read the file again
C3_Witness ==
    \E c \in CallIds :
        /\ calls[c].pc = "read"
        /\ calls[c].configPath \in DOMAIN configCache
        /\ configCache[calls[c].configPath].lastModified # calls[c].lastModified

\* a call has found a configuration file that is not a JSON document with
\* well-typed compilerOptions.paths
Malformed(k) ==
    /\ Settled(k) /\ ~k.hit
    /\ Truthy(k.configPath)
    /\ parseConfig(k.configPath, fs.content[k.configPath]).error # NoError

\* C4: with a malformed configuration file the call is fulfilled, with the
\* links the empty alias table gives
C4_MalformedConfigDegrades ==
    Malformed(returned) =>
        /\ returned.pc = "done"
        /\ returned.ret = LinksFrom(fs, returned.doc, text[returned.doc], <<>>, 0)

\* C5: no call is rejected because a filesystem operation failed
C5_NoErrorCrossesBoundary ==
    Settled(returned) => returned.error # FsError

\* ------------------------------------------------------------------------
\* Config Locator
\* ------------------------------------------------------------------------

\* the calls in flight and the call that settled last
Records == {calls[c] : c \in CallIds} \cup {returned}

\* the directories from dir upward, the filesystem root left out
ChainOf(dir) ==
    {SubSeq(dir, 1, n) : n \in {m \in 2..Len(dir) : m = Len(dir) \/ dir[m + 1] = "/"}}

\* directory d holds a configuration file that an existence check finds
HoldsConfig(f, d) ==
    fileExists(f, pathJoin(d, TsConfig)) \/ fileExists(f, pathJoin(d, JsConfig))

\* the configuration file of the nearest directory of the chain that holds
\* one, tsconfig.json before jsconfig.json; Null when no directory does
NearestConfig(f, dir) ==
    LET holders == {d \in ChainOf(dir) : HoldsConfig(f, d)}
        nearest == CHOOSE d \in holders : \A e \in holders : Len(e) <= Len(d)
    IN  IF holders = {} THEN Null
        ELSE IF fileExists(f, pathJoin(nearest, TsConfig)) THEN pathJoin(nearest, TsConfig)
        ELSE pathJoin(nearest, JsConfig)

\* findNearestConfig has returned to call k
Located(k) == k.pc \in {"stat", "read", "resolve"} \/ (Settled(k) /\ ~k.hit)

\* C6: whatever earlier calls left in configPathCache, findNearestConfig
\* returns the configuration file of the nearest directory from the
\* document's directory upward, root excluded, that holds tsconfig.json or
\* jsconfig.json, tsconfig.json when it holds both, and null when none does
C6_LocateResult ==
    \A k \in Records :
        Located(k) => k.configPath = NearestConfig(fs, pathDirname(k.doc))

\* a call from /p is answered with /p/jsconfig.json out of configPathCache,
\* with no filesystem operation of its own
C6_Witness ==
    \E c \in CallIds :
        /\ calls[c].pc = "stat"
        /\ calls[c].doc = DocF
        /\ calls[c].configPath = JsConfP
        /\ ~calls[c].fsOps
        /\ DirS \in DOMAIN configPathCache

\* no existence check finds a configuration file from k's directory upward
NoConfigAbove(k) == Truthy(k.doc) /\ NearestConfig(fs, pathDirname(k.doc)) = Null

\* no directory occurs twice in the walk, and all are on the chain
EachOnce(k) ==
    /\ \A i, j \in 1..Len(k.visited) : k.visited[i] = k.visited[j] => i = j
    /\ \A i \in 1..Len(k.visited) : k.visited[i] \in ChainOf(pathDirname(k.doc))

\* the walk of a call with no configuration file above it: each directory at
\* most once, and when it is over the call has null and was not rejected
C7_Walk ==
    \A k \in Records :
        NoConfigAbove(k) =>
            /\ EachOnce(k)
            /\ Located(k) => k.pc = "done" /\ k.configPath = Null /\ k.error = NoError

\* C7: with no configuration file in the directory or above it,
\* findNearestConfig visits each directory of the chain at most once,
\* returns null without raising, also when fs.access fails, and terminates
C7_AncestorWalkTerminates ==
    /\ []C7_Walk
    /\ \A c \in CallIds :
         (calls[c].pc = "locate" /\ NoConfigAbove(calls[c])) ~> (calls[c].pc = "idle")

\* the walk from /p/s went through /p/s and /p, where fs.access failed on a
\* configuration file, and returned null
C7_Witness ==
    /\ returned.pc = "done" /\ ~returned.hit
    /\ returned.doc = DocD
    /\ returned.visited = <<DirS, DirP>>
    /\ returned.configPath = Null
    /\ fs.denied # {}

\* ------------------------------------------------------------------------
\* Import Resolver
\* ------------------------------------------------------------------------

\* call k has resolved a specifier, with or without an alias key
Resolved(k) == Settled(k) /\ ~k.hit /\ Truthy(k.importPath)

RECURSIVE FirstFile(_, _)
\* the first of the paths that exists as a file, or Null
FirstFile(f, paths) ==
    IF paths = <<>> THEN Null
    ELSE IF fileExists(f, Head(paths)) /\ KindOf(f, Head(paths)) = "file" THEN Head(paths)
    ELSE FirstFile(f, Tail(paths))

\* C8: with no alias key that is a prefix of the specifier, resolveAlias
\* returns the first of P, P.sass, P.scss, P.css that exists as a file, and
\* null when none does; never a directory
C8_RelativeFallback ==
    (Resolved(returned) /\ ~Truthy(findAliasKey(returned.importPath, returned.aliases))) =>
        LET P == pathJoin(pathDirname(returned.doc), returned.importPath)
        IN  returned.resolved =
                FirstFile(fs, <<P, P \o <<".sass">>, P \o <<".scss">>, P \o <<".css">> >>)

\* the paths base + remainder of the alias key that matches k's specifier
Joined(k) ==
    LET aliasKey == findAliasKey(k.importPath, k.aliases)
        basePaths == Get(k.aliases, aliasKey)
    IN  [i \in 1..Len(basePaths) |->
            pathJoin(basePaths[i], Replace(k.importPath, aliasKey, <<>>))]

\* the base paths under which the joined path exists
Existing(k) == {i \in DOMAIN Joined(k) : fileExists(fs, Joined(k)[i])}

\* the first of them
FirstExisting(k) == CHOOSE i \in Existing(k) : \A j \in Existing(k) : i <= j

AliasCase(k) == Resolved(k) /\ Truthy(findAliasKey(k.importPath, k.aliases))

\* C9: with a matching alias key, base paths under which the joined path
\* does not exist are skipped in their declared order; the first joined path
\* that exists is returned if fs.stat says it is a file, no later base path
\* is used, and the result is null when no joined path exists
C9_MultiBaseAlias ==
    AliasCase(returned) =>
        /\ Existing(returned) = {} => returned.resolved = Null
        /\ Existing(returned) # {} =>
              LET first == Joined(returned)[FirstExisting(returned)]
              IN  /\ fsStat(fs, first) = "file" => returned.resolved = first
                  /\ Truthy(returned.resolved) /\ returned.resolved # Rejected
                         => StartsWith(returned.resolved, first)

\* nothing exists under the first base path, and the file under the second
\* was returned
C9_Witness ==
    /\ AliasCase(returned)
    /\ ~fileExists(fs, AX)
    /\ returned.resolved = BX

\* C10: with a matching alias key and a joined path that is a directory,
\* resolveAlias returns index.scss of the directory if it exists, else
\* main.scss if it exists, and never the directory itself
C10_DirectoryAlias ==
    (AliasCase(returned) /\ Existing(returned) # {}) =>
        LET first == Joined(returned)[FirstExisting(returned)]
            indexPath == pathJoin(first, IndexScss)
            mainPath == pathJoin(first, MainScss)
        IN  fsStat(fs, first) = "dir" =>
                /\ returned.resolved # first
                /\ fileExists(fs, indexPath) => returned.resolved = indexPath
                /\ (~fileExists(fs, indexPath) /\ fileExists(fs, mainPath))
                       => returned.resolved = mainPath

\* the directory holds index.scss and main.scss, and index.scss was returned
C10_Witness ==
    /\ AliasCase(returned)
    /\ KindOf(fs, AX) = "dir"
    /\ fileExists(fs, pathJoin(AX, MainScss))
    /\ returned.resolved = pathJoin(AX, IndexScss)

\* ------------------------------------------------------------------------
\* Scans one after another: d.scss imports through the alias, f.scss in /p
\* imports u.scss beside it; fs.stat of /p/a/x may fail; no edits
\* ------------------------------------------------------------------------

PU == <<"/", "p", "/", "u">>
ImportU == <<"@", "u", "s", "e", "'", "u", "'">>

InitScan ==
    \E statErr \in SUBSET {AX}, td \in {ImportAX, TextTwo, ImportY}, tf \in {ImportU, TextNone} :
        Activated(Layout(ProjectFiles @@ (PU \o <<".scss">> :> "file"), {}, statErr, ContentA),
                  (DocD :> td) @@ (DocF :> tf))

SpecScan == InitScan /\ [][Handlers]_vars

\* call k has scanned its document to the end
Scanned(k) == k.pc = "done" /\ ~k.hit /\ Truthy(k.configPath)

\* C11: every scan returns one link for each import of the whole text whose
\* specifier resolves, in textual order, whatever earlier scans did to
\* importRegex.lastIndex
C11_ScanCompleteness ==
    Scanned(returned) =>
        returned.ret = LinksFrom(fs, returned.doc, text[returned.doc], returned.aliases, 0)

\* the links call k has collected or returned
LinksOf(k) == IF k.pc = "done" THEN k.ret ELSE k.links

\* the range <<s, e>> covers exactly a quoted specifier of text t
CoversSpecifier(t, s, e) ==
    /\ 1 <= s /\ s < e /\ e < Len(t)
    /\ t[s] \in Quotes
    /\ t[e + 1] \in Quotes
    /\ \A j \in (s + 1)..e : t[j] \notin Quotes

\* C12: the range of every link starts at the first character of the
\* specifier inside the quotes and ends with the specifier
C12_LinkRange ==
    \A k \in Records :
        Truthy(k.doc) =>
            \A i \in 1..Len(LinksOf(k)) :
                CoversSpecifier(text[k.doc], LinksOf(k)[i].range[1], LinksOf(k)[i].range[2])

\* ------------------------------------------------------------------------
\* Scans overtaken by edits
\* ------------------------------------------------------------------------

\* C13: a call answered from documentLinkCache never gets links that a scan
\* of the text before the latest edit has stored, unless they are the links
\* of the text as it is now
C13_StaleScansHarmless ==
    (Settled(returned) /\ returned.hit /\ returned.preEdit) =>
        returned.ret = LinksFrom(fs, returned.doc, text[returned.doc],
                                 parseConfig(ConfP, fs.content[ConfP]).aliases, 0)

\* ------------------------------------------------------------------------
\* The Config Locator's cache
\* ------------------------------------------------------------------------

\* C14, for the call in slot c: a turn of the walk in a directory that
\* configPathCache has a record for, a path or null, performs no fs.access
C14_Turn(c) ==
    (calls[c].pc = "locate" /\ calls[c].currentDir \in DOMAIN configPathCache
        /\ calls'[c] # calls[c])
        => After(c).fsOps = calls[c].fsOps

\* C14: findNearestConfig touches no file in a directory whose result is
\* recorded
C14_LocatorCacheHit == [][\A c \in CallIds : C14_Turn(c)]_vars

\* C16: a call whose walk found no configuration file returns the empty
\* sequence and leaves it in documentLinkCache under the document's path
C16_EmptyResultCached ==
    (returned.pc = "done" /\ ~returned.hit /\ ~Truthy(returned.configPath)
        /\ returned.visited # <<>>) =>
        /\ returned.ret = <<>>
        /\ returned.doc \in DOMAIN documentLinkCache
        /\ documentLinkCache[returned.doc] = <<>>

\* ------------------------------------------------------------------------
\* Configuration files come and go in /p and /p/s while d.scss and f.scss
\* are requested
\* ------------------------------------------------------------------------

\* a configuration file is created at p
EnvCreate(p) ==
    /\ KindOf(fs, p) = "none"
    /\ fs' = Layout(With(fs.kind, p, "file"), fs.denied, fs.statErr, ContentNone)
    /\ UNCHANGED <<text, configCache, configPathCache, documentLinkCache, lastIndex,
                   calls, returned, edited, stale, last>>

\* the configuration file at p is deleted
EnvRemove(p) ==
    /\ KindOf(fs, p) = "file"
    /\ fs' = Layout(Without(fs.kind, p), fs.denied, fs.statErr, ContentNone)
    /\ UNCHANGED <<text, configCache, configPathCache, documentLinkCache, lastIndex,
                   calls, returned, edited, stale, last>>

InitStale ==
    \E ch \in [{ConfS, ConfP} -> {"absent", "file"}] :
        Activated(Layout(Present(ch), {}, {}, ContentNone),
                  (DocD :> ImportBareY) @@ (DocF :> TextNone))

NextStale ==
    \/ Handlers
    \/ \E p \in {ConfS, ConfP} : EnvCreate(p)
    \/ \E p \in {ConfS, ConfP} : EnvRemove(p)

SpecStale == InitStale /\ [][NextStale]_vars

\* C15: what configPathCache records for a directory, a path or null, is
\* never changed or removed afterwards
C15_RecordedResultIsFinal ==
    [][\A dir \in DOMAIN configPathCache :
          /\ dir \in DOMAIN configPathCache'
          /\ configPathCache'[dir] = configPathCache[dir]]_vars

\* ------------------------------------------------------------------------
\* Import Resolver: joined paths that lead nowhere
\* ------------------------------------------------------------------------

\* C17: with a matching alias key, when the first joined path that exists
\* is a directory with neither index.scss nor main.scss, or is neither a
\* file nor a directory, resolveAlias returns null: no later base path and
\* no relative fallback
C17_EmptyDirectoryIsTerminal ==
    (AliasCase(returned) /\ Existing(returned) # {}) =>
        LET first == Joined(returned)[FirstExisting(returned)]
            empty == /\ fsStat(fs, first) = "dir"
                     /\ ~fileExists(fs, pathJoin(first, IndexScss))
                     /\ ~fileExists(fs, pathJoin(first, MainScss))
        IN  (empty \/ fsStat(fs, first) = "other") => returned.resolved = Null

\* /p/a/x is an empty directory, /p/b/x and /p/s/@a/x are files, and null
\* was returned
C17_Witness ==
    /\ AliasCase(returned)
    /\ fsStat(fs, AX) = "dir" /\ fileExists(fs, AX)
    /\ KindOf(fs, BX) = "file"
    /\ KindOf(fs, SAX) = "file"
    /\ returned.resolved = Null

\* ------------------------------------------------------------------------
\* The Alias Table Builder on configuration files with one or two alias
\* declarations, among them a target with "/*" in its middle and the
\* integer aliases 20 and 2; d.scss imports @a/x or 20/x
\* ------------------------------------------------------------------------

DeclA == PathsA[1]
DeclMid == [alias |-> <<"@", "m", "/", "*">>,
            targets |-> << <<".", "/", "a", "/", "*", "b">> >>, typed |-> TRUE]
Decl20 == [alias |-> <<"2", "0", "/", "*">>, targets |-> << <<".", "/", "b", "/", "*">> >>,
           typed |-> TRUE]
Decl2 == [alias |-> <<"2", "/", "*">>, targets |-> << <<".", "/", "a", "/", "*">> >>,
          typed |-> TRUE]
Decls == {DeclA, DeclMid, Decl20, Decl2}

\* compilerOptions.paths with one declaration, or two with different aliases
PathsChoices ==
    {<<e>> : e \in Decls} \cup {p \in Decls \X Decls : p[1] # p[2]}

Import20 == <<"@", "u", "s", "e", "'", "2", "0", "/", "x", "'">>

InitBuild ==
    \E paths \in PathsChoices, t \in {ImportAX, Import20} :
        Activated(Layout(ProjectFiles @@ (BX :> "file"), {}, {},
                         [json |-> TRUE, paths |-> paths]),
                  (DocD :> t))

SpecBuild == InitBuild /\ [][Handlers]_vars

\* s without a "/*" at its end
StripTrailing(s) ==
    IF Len(s) >= Len(Star) /\ SubSeq(s, Len(s) - Len(Star) + 1, Len(s)) = Star
    THEN SubSeq(s, 1, Len(s) - Len(Star)) ELSE s

\* getTsConfigAliases has returned the table k.aliases to call k
Built(k) == k.pc \in {"resolve", "done"} /\ ~k.hit /\ Truthy(k.configPath)

\* the declarations of the configuration file call k located
Declared(k) == fs.content[k.configPath].paths

\* C18: for every declaration, the table holds under the alias without its
\* trailing "/*" the targets in their order, each without its trailing "/*"
\* and resolved against the configuration file's directory; a "/*"
\* elsewhere stays
C18_AliasNormalisation ==
    \A k \in Records :
        Built(k) =>
            \A i \in 1..Len(Declared(k)) :
                \E j \in 1..Len(k.aliases) :
                    /\ k.aliases[j].key = StripTrailing(Declared(k)[i].alias)
                    /\ k.aliases[j].paths =
                         [t \in 1..Len(Declared(k)[i].targets) |->
                             pathResolve(pathDirname(k.configPath),
                                         StripTrailing(Declared(k)[i].targets[t]))]

\* the declarations whose alias, the trailing "/*" apart, the specifier
\* starts with
Matching(k) ==
    {i \in 1..Len(Declared(k)) :
        StartsWith(k.importPath, StripTrailing(Declared(k)[i].alias))}

\* the alias of the first of them
FirstDeclared(k) ==
    StripTrailing(Declared(k)[CHOOSE i \in Matching(k) : \A j \in Matching(k) : i <= j].alias)

\* C19: the alias key used is the first in the order of declaration that
\* the specifier starts with, and what is joined onto its base paths is the
\* specifier without that leading key
C19_AliasSelection ==
    (Resolved(returned) /\ Truthy(returned.configPath) /\ Matching(returned) # {}) =>
        returned.resolved =
            probeBasePaths(fs, Get(returned.aliases, FirstDeclared(returned)),
                           SubSeq(returned.importPath, Len(FirstDeclared(returned)) + 1,
                                  Len(returned.importPath)))

\* ------------------------------------------------------------------------
\* d.scss and f.scss are requested, and f.scss is touched, while the
\* project's configuration file is rewritten
\* ------------------------------------------------------------------------

InitFrame ==
    Activated(Layout(ProjectFiles, {}, {}, ContentA),
              (DocD :> ImportAX) @@ (DocF :> TextNone))

NextFrame ==
    \/ Handlers
    \/ onDidChangeTextDocument(DocF, text[DocF])
    \/ \E content \in Contents : EnvTouch(ConfP, content)

SpecFrame == InitFrame /\ [][NextFrame]_vars

\* the step is the handling of an edit notification for document d
EditOf(d) ==
    /\ d \in edited' /\ d \notin DOMAIN last'
    /\ UNCHANGED <<fs, configCache, configPathCache, lastIndex, returned>>

\* the step ends a scan of document d
ScanEndOf(d) == returned' # returned /\ returned'.doc = d /\ ~returned'.hit

\* C20, for the entry of document d: only an edit notification for d
\* removes it, only a scan of d replaces it, and a call answered from the
\* cache returns it as it is
C20_Entry(d) ==
    /\ d \notin DOMAIN documentLinkCache' => EditOf(d)
    /\ (d \in DOMAIN documentLinkCache' /\ documentLinkCache'[d] # documentLinkCache[d])
           => ScanEndOf(d)
    /\ (returned' # returned /\ returned'.hit /\ returned'.doc = d)
           => returned'.ret = documentLinkCache[d]

\* C20: a documentLinkCache entry is left alone by changes of the
\* configuration file, rebuilds of the alias table, and scans and edits of
\* other documents
C20_DocumentLinkCacheFrame ==
    [][\A d \in DOMAIN documentLinkCache : C20_Entry(d)]_vars

\* the configuration file lost its aliases after d.scss was scanned, and a
\* later call for d.scss still got the cached link
C20_Witness ==
    /\ returned.pc = "done" /\ returned.hit
    /\ returned.doc = DocD
    /\ returned.ret # <<>>
    /\ fs.content[ConfP] = ContentNone
    /\ DocF \in DOMAIN documentLinkCache

====
